---- MODULE Spec2Model ----
(***************************************************************************)
(* The scaling controller of ai-agent-deployment-strategies:               *)
(*   - CostOptimizer (src/optimization/cost_optimizer.py): profile         *)
(*     selection, the slow cost/profile loop and its transitions;          *)
(*   - RequestBasedScaler (src/scaling/horizontal_scaler.py): the fast     *)
(*     queue/response-time loop;                                           *)
(*   - GPUResourceManager (src/optimization/resource_manager.py): GPU      *)
(*     placement and the GPU scale-up test;                                *)
(*   - PredictiveScaler (src/scaling/predictive_scaler.py): the forecaster *)
(*     history, train_model and predict_scaling_need.  train_model runs on *)
(*     a worker beside the callers of collect_metrics and of               *)
(*     predict_scaling_need; each of its fits is a step.                   *)
(*   - AIAgentSecurity (src/security/input_validator.py): the per-user     *)
(*     rate limiter check_rate_limit.                                      *)
(* Both loops are asyncio coroutines.  A coroutine runs until it awaits;   *)
(* every `await` of asyncio.sleep or of an executor operation (scale up,   *)
(* scale down, drain) ends a step of the model.                            *)
(*                                                                         *)
(* Units: time in seconds; money in cents (hourly_cost 0.05 is 5);         *)
(* utilizations in percent (0.70 is 70); cpu_cores in half cores;          *)
(* capacities are compared after multiplying both sides by 10, so that     *)
(* requests_per_minute * 0.8 is the integer requests_per_minute * 8.       *)
(***************************************************************************)
EXTENDS Integers, Sequences, FiniteSets, TLC

\* ------------------------------------------------------------------ bounds
\* time.time() when the two loops start.
StartTime == 1000
\* The model follows the loops for this many seconds.
Horizon == 390
\* get_gpu_metrics is followed for this many samples.
MaxGpuSamples == 6
\* Response times are recorded up to this many samples.
MaxResponseSamples == 102
\* collect_metrics is followed for this many rows.
MaxRows == 122
MaxTicks == 3
\* check_rate_limit is followed for this many calls, over this many seconds.
MaxCalls == 5
RateHorizon == 5
LedgerHorizon == 7200

\* ------------------------------------------------------- program constants
scale_cooldown == 300
target_queue_size == 10
fast_poll_seconds == 30
slow_poll_seconds == 300
settle_seconds == 60
drain_seconds == 30
target_utilization == 70
\* metrics.get('gpu_utilization', 0): the key is absent
NoGpu == -1
\* GPUResourceManager(target_utilization=0.8)
gpu_target_utilization == 80
\* should_scale_up reads gpu_metrics_history[-5:]
gpu_window == 5
\* find_optimal_gpu returns None
NoneGpu == -1
\* deque(maxlen=100)
response_times_maxlen == 100
\* a missing value (None, NaN) in a history row
NaN == -1
\* train_model: len(self.metrics_history) < 48
min_history_rows == 48
\* train_model: len(df) < 24
min_training_rows == 24
\* train_model: shift(4) and shift(96)
lag_1h == 4
lag_24h == 96
\* collect_metrics: history_window * 24
rows_per_hour == 24
\* check_rate_limit(self, user_id, limit=100, window=3600)
default_limit == 100
default_window == 3600

\* ------------------------------------------------------------ data model
ResourceProfile(n, cpu, mem, gpu, cost, cap) ==
    [name |-> n, cpu_cores |-> cpu, memory_gb |-> mem, gpu_count |-> gpu,
     hourly_cost |-> cost, max_concurrent_users |-> cap]

resource_profiles ==
    << ResourceProfile("nano",    1,  1, 0,   5,  10),
       ResourceProfile("micro",   2,  2, 0,  10,  25),
       ResourceProfile("small",   4,  4, 0,  20,  50),
       ResourceProfile("medium",  8,  8, 1,  80, 100),
       ResourceProfile("large",  16, 16, 2, 160, 200),
       ResourceProfile("xlarge", 32, 32, 4, 320, 400) >>

Catalog == { resource_profiles[i] : i \in DOMAIN resource_profiles }

\* the profile CostOptimizer starts with: self.resource_profiles[2]
default_profile == resource_profiles[3]

NoProfile == [name |-> "none"]

Metrics(au, rpm, cpu, mem, gpu) ==
    [active_users |-> au, requests_per_minute |-> rpm, cpu_utilization |-> cpu,
     memory_utilization |-> mem, gpu_utilization |-> gpu]

NoMetrics == [active_users |-> -1]

\* the snapshot collect_usage_metrics returns
StubMetrics == Metrics(75, 120, 65, 70, 80)

Max2(a, b) == IF a >= b THEN a ELSE b
Abs(a) == IF a >= 0 THEN a ELSE 0 - a
SetMin(S) == CHOOSE x \in S : \A y \in S : x <= y

\* -------------------------------------------- calculate_optimal_profile
\* max(active_users, requests_per_minute * 0.8), times 10
required_capacity(metrics) ==
    Max2(metrics.active_users * 10, metrics.requests_per_minute * 8)

\* a bug: the requests_per_minute term of required_capacity is forgotten
IsSuitable_ActiveUsersOnly(profile, metrics) ==
    profile.max_concurrent_users >= metrics.active_users

IsSuitable(profile, metrics) ==
    profile.max_concurrent_users * 10 >= required_capacity(metrics)

\* the list comprehension: catalog order is kept
suitable_profiles(self, metrics) ==
    SelectSeq(self.resource_profiles, LAMBDA p : IsSuitable(p, metrics))

current_utilization(metrics) ==
    Max2(Max2(metrics.cpu_utilization, metrics.memory_utilization),
         IF metrics.gpu_utilization = NoGpu THEN 0 ELSE metrics.gpu_utilization)

\* a bug: the penalty differs between the candidates, it is spread over the
\* users a profile can carry
Score_PenaltyPerUser(p, metrics) ==
    p.hourly_cost
       + (Abs(current_utilization(metrics) - target_utilization) * 10 * 400)
            \div p.max_concurrent_users

\* the key of min(): hourly_cost + abs(current_utilization - 0.70) * 10
Score(p, metrics) ==
    p.hourly_cost + Abs(current_utilization(metrics) - target_utilization) * 10

\* a bug: max() where min() is meant
MinByScore_Max(seq, metrics) ==
    seq[CHOOSE i \in DOMAIN seq :
          /\ \A j \in DOMAIN seq : Score(seq[i], metrics) >= Score(seq[j], metrics)
          /\ \A j \in DOMAIN seq :
                Score(seq[j], metrics) = Score(seq[i], metrics) => i <= j]

\* Python's min(seq, key): the first element whose key is minimal
MinByScore(seq, metrics) ==
    seq[CHOOSE i \in DOMAIN seq :
          /\ \A j \in DOMAIN seq : Score(seq[i], metrics) <= Score(seq[j], metrics)
          /\ \A j \in DOMAIN seq :
                Score(seq[j], metrics) = Score(seq[i], metrics) => i <= j]

\* a bug: resource_profiles[0] where resource_profiles[-1] is meant
calculate_optimal_profile_First(self, metrics) ==
    LET suitable == suitable_profiles(self, metrics)
    IN  IF suitable = << >>
        THEN self.resource_profiles[1]
        ELSE MinByScore(suitable, metrics)

\* a bug: hysteresis, the current profile is kept while it can carry the load
calculate_optimal_profile_Sticky(self, metrics) ==
    LET suitable == suitable_profiles(self, metrics)
    IN  IF suitable = << >>
        THEN self.resource_profiles[Len(self.resource_profiles)]
        ELSE IF IsSuitable(self.current_profile, metrics)
        THEN self.current_profile
        ELSE MinByScore(suitable, metrics)

calculate_optimal_profile(self, metrics) ==
    LET suitable == suitable_profiles(self, metrics)
    IN  IF suitable = << >>
        THEN self.resource_profiles[Len(self.resource_profiles)]
        ELSE MinByScore(suitable, metrics)

\* ------------------------------------------------------------------ state
VARIABLES
    now,              \* time.time()
    current_profile,  \* CostOptimizer.current_profile
    cost_metrics,     \* CostOptimizer.cost_metrics: hour -> bucket
    co_pc,            \* where monitor_usage_and_optimize stands
    co_wake,          \* when its asyncio.sleep ends
    current_metrics,  \* its local current_metrics
    optimal_profile,  \* its local optimal_profile (new_profile of the transition)
    old_profile,      \* transition_to_profile's local old_profile
    co_failed,        \* the executor operation that raised in this cycle, or "none"
    last_scale_time,  \* RequestBasedScaler.last_scale_time
    rs_pc,            \* where monitor_and_scale stands
    rs_wake,          \* when its asyncio.sleep ends
    current_time,     \* its local current_time
    provisioned,      \* the platform: names of the profiles whose capacity is up
    initiated,        \* history: the transitions initiated, <<loop, time>>
    ticks,            \* history: the calls of update_cost_metrics
    co_log            \* history: the steps of the cost loop's last transition

VARIABLES
    gpu_metrics_history,  \* GPUResourceManager.gpu_metrics_history
    gpu_call,             \* the last call of GPUResourceManager and what it returned
    response_times_deque  \* RequestBasedScaler.response_times, as samples are recorded

VARIABLES
    history_window,   \* PredictiveScaler.history_window
    feed,             \* what the collector feeds: seconds between rows, missing values
    metrics_history,  \* PredictiveScaler.metrics_history
    is_trained,       \* PredictiveScaler.is_trained
    scaler_fit,       \* the data self.scaler was last fitted on, 0 before any fit
    model_fit,        \* the data self.model was last fitted on, 0 before any fit
    tr_pc,            \* where train_model stands
    tr_data,          \* the data frame train_model is fitting
    train_call,       \* the last call of train_model and what it returned
    predict_call      \* the last call of predict_scaling_need and what it returned

VARIABLES
    cost_report,      \* the last call of generate_cost_report and what it returned
    poll_call         \* one poll of monitor_and_scale: what it found and decided

VARIABLES
    rate_limits,      \* AIAgentSecurity.rate_limits: user_id -> request times
    wall_time,        \* what time.time() returns to check_rate_limit
    rate_limit,       \* the limit the callers of check_rate_limit pass
    rate_window,      \* the window the callers of check_rate_limit pass
    rate_calls        \* the calls of check_rate_limit so far and what they returned

ctl_vars == << now, current_profile, cost_metrics, co_pc, co_wake, current_metrics,
           optimal_profile, old_profile, co_failed, last_scale_time, rs_pc,
           rs_wake, current_time, provisioned, initiated, ticks, co_log >>

co_vars == << current_profile, cost_metrics, co_pc, co_wake, current_metrics,
              optimal_profile, old_profile, co_failed, ticks, co_log >>

rs_vars == << last_scale_time, rs_pc, rs_wake, current_time >>

gpu_vars == << gpu_metrics_history, gpu_call, response_times_deque >>

fc_vars == << history_window, feed, metrics_history, is_trained, scaler_fit,
              model_fit, tr_pc, tr_data, train_call, predict_call >>

call_vars == << cost_report, poll_call >>

sec_vars == << rate_limits, wall_time, rate_limit, rate_window, rate_calls >>

\* what the two control loops leave alone
other_vars == << gpu_vars, fc_vars, call_vars, sec_vars >>

vars == << ctl_vars, other_vars >>

NoCall == [op |-> "none"]

Feed(seconds, gpu) == [seconds |-> seconds, gpu |-> gpu]

\* PredictiveScaler.__init__(history_window), and the feed it will get
ForecastInit(window, f) ==
    /\ history_window = window
    /\ feed = f
    /\ metrics_history = << >>
    /\ is_trained = FALSE
    /\ scaler_fit = 0
    /\ model_fit = 0
    /\ tr_pc = "idle"
    /\ tr_data = 0
    /\ train_call = NoCall
    /\ predict_call = NoCall

\* GPUResourceManager.__init__
GpuInit ==
    /\ gpu_metrics_history = << >>
    /\ gpu_call = NoCall
    /\ response_times_deque = << >>

\* generate_cost_report not called yet, no poll of the fast loop looked at
CallInit ==
    /\ cost_report = NoCall
    /\ poll_call = NoCall

\* AIAgentSecurity.__init__, and the limit and window its callers will pass
SecurityInit(limit, seconds) ==
    /\ rate_limits = << >>
    /\ wall_time = 0
    /\ rate_limit = limit
    /\ rate_window = seconds
    /\ rate_calls = << >>

\* the CostOptimizer object as calculate_optimal_profile sees it
Self ==
    [resource_profiles |-> resource_profiles, current_profile |-> current_profile,
     cost_metrics |-> cost_metrics]

EmptyLedger == << >>

Init ==
    /\ now = StartTime
    /\ current_profile = default_profile
    /\ cost_metrics = EmptyLedger
    /\ co_pc = "sleep"
    /\ co_wake = StartTime
    /\ current_metrics = NoMetrics
    /\ optimal_profile = NoProfile
    /\ old_profile = NoProfile
    /\ co_failed = "none"
    /\ last_scale_time = 0
    /\ rs_pc = "sleep"
    /\ rs_wake = StartTime
    /\ current_time = 0
    /\ provisioned = {default_profile.name}
    /\ initiated = << >>
    /\ ticks = << >>
    /\ co_log = << >>
    /\ GpuInit
    /\ SecurityInit(default_limit, default_window)
    /\ CallInit
    /\ ForecastInit(168, Feed(900, "present"))

\* ------------------------------------------------------ update_cost_metrics
\* a bug: the tick's cost replaces the bucket's cost
update_cost_metrics_Overwrite(ledger, profile, usage_metrics, time) ==
    LET current_hour == time \div 3600
        bucket == IF current_hour \in DOMAIN ledger
                  THEN ledger[current_hour]
                  ELSE [cost |-> 0, requests |-> 0, active_users |-> 0,
                        profile_used |-> profile.name]
        updated == [bucket EXCEPT
                      !.cost = profile.hourly_cost,
                      !.requests = @ + usage_metrics.requests_per_minute * 5,
                      !.active_users = Max2(@, usage_metrics.active_users)]
    IN  [h \in DOMAIN ledger \cup {current_hour} |->
            IF h = current_hour THEN updated ELSE ledger[h]]

\* The bucket of the current hour after one tick.  cost is kept in twelfths of a
\* cent, so that hourly_cost / 12 is the integer hourly_cost.
update_cost_metrics(ledger, profile, usage_metrics, time) ==
    LET current_hour == time \div 3600
        bucket == IF current_hour \in DOMAIN ledger
                  THEN ledger[current_hour]
                  ELSE [cost |-> 0, requests |-> 0, active_users |-> 0,
                        profile_used |-> profile.name]
        updated == [bucket EXCEPT
                      !.cost = @ + profile.hourly_cost,
                      !.requests = @ + usage_metrics.requests_per_minute * 5,
                      !.active_users = Max2(@, usage_metrics.active_users)]
    IN  [h \in DOMAIN ledger \cup {current_hour} |->
            IF h = current_hour THEN updated ELSE ledger[h]]

\* ------------------------------------- CostOptimizer.monitor_usage_and_optimize
\* the snapshots the collector hands to the slow loop
Snapshots ==
    { StubMetrics, Metrics(5, 5, 10, 10, NoGpu), Metrics(40, 40, 50, 50, 0) }

InTransitionPcs ==
    { "scale_up_to_profile", "settle", "scale_down_from_profile",
      "drain_connections", "draining", "down_scale_down_from_profile",
      "down_scale_up_to_profile" }

\* a step of transition_to_profile, as the platform and the clock saw it
Operation(op, profile, ok) ==
    [op |-> op, profile |-> profile.name, time |-> now,
     outcome |-> IF ok THEN "returned" ELSE "raised"]

\* transition_to_profile(new_profile) is entered
Entry(old, new) ==
    [op |-> "transition_to_profile", profile |-> new.name, from |-> old.name,
     time |-> now, outcome |-> "called"]

\* self.current_profile = new_profile
Assignment(profile) ==
    [op |-> "set_current_profile", profile |-> profile.name, time |-> now,
     outcome |-> "returned"]

\* a call of update_cost_metrics: when, under which profile, with how many requests
CostTick(profile, metrics) ==
    [time |-> now, hourly_cost |-> profile.hourly_cost,
     requests |-> metrics.requests_per_minute * 5]

\* the end of a cycle that raised nothing: update_cost_metrics, then sleep(300)
FinishCycle(profile, metrics) ==
    /\ cost_metrics' = update_cost_metrics(cost_metrics, profile, metrics, now)
    /\ ticks' = Append(ticks, CostTick(profile, metrics))
    /\ co_pc' = "sleep"
    /\ co_wake' = now + slow_poll_seconds

\* a bug: the profile is advanced although the operation raised
RaiseInTransition_Advance(operation) ==
    /\ co_failed' = operation
    /\ co_pc' = "sleep"
    /\ co_wake' = now + slow_poll_seconds
    /\ current_profile' = optimal_profile
    /\ UNCHANGED << cost_metrics, provisioned, ticks >>

\* a bug: the tick is accrued although the transition raised
RaiseInTransition_Accrue(operation) ==
    /\ co_failed' = operation
    /\ co_pc' = "sleep"
    /\ co_wake' = now + slow_poll_seconds
    /\ cost_metrics' =
          update_cost_metrics(cost_metrics, current_profile, current_metrics, now)
    /\ ticks' = Append(ticks, CostTick(current_profile, current_metrics))
    /\ UNCHANGED << current_profile, provisioned >>

\* an executor operation raised: transition_to_profile and the try block are
\* left, the handler prints, and the loop sleeps
RaiseInTransition(operation) ==
    /\ co_failed' = operation
    /\ co_pc' = "sleep"
    /\ co_wake' = now + slow_poll_seconds
    /\ UNCHANGED << current_profile, cost_metrics, provisioned, ticks >>

\* a bug: transition_to_profile is called whatever the optimal profile is
CoPoll_AlwaysTransition(m) ==
    /\ co_pc = "sleep"
    /\ now >= co_wake
    /\ current_metrics' = m
    /\ co_failed' = "none"
    /\ LET optimal == calculate_optimal_profile(Self, m)
       IN  /\ optimal_profile' = optimal
           /\ old_profile' = current_profile
           /\ initiated' = Append(initiated, [loop |-> "cost", time |-> now])
           /\ co_pc' = IF optimal.hourly_cost > current_profile.hourly_cost
                       THEN "scale_up_to_profile"
                       ELSE "drain_connections"
           /\ co_log' = << Entry(current_profile, optimal) >>
           /\ UNCHANGED << cost_metrics, co_wake, ticks >>
    /\ UNCHANGED << now, current_profile, provisioned >>
    /\ UNCHANGED rs_vars
    /\ UNCHANGED other_vars

\* one cycle up to its first await that suspends
CoPoll(m) ==
    /\ co_pc = "sleep"
    /\ now >= co_wake
    /\ current_metrics' = m
    /\ co_failed' = "none"
    /\ LET optimal == calculate_optimal_profile(Self, m)
       IN  /\ optimal_profile' = optimal
           /\ IF optimal # current_profile
              THEN /\ old_profile' = current_profile
                   /\ initiated' = Append(initiated, [loop |-> "cost", time |-> now])
                   /\ co_pc' = IF optimal.hourly_cost > current_profile.hourly_cost
                               THEN "scale_up_to_profile"
                               ELSE "drain_connections"
                   /\ co_log' = << Entry(current_profile, optimal) >>
                   /\ UNCHANGED << cost_metrics, co_wake, ticks >>
              ELSE /\ FinishCycle(current_profile, m)
                   /\ UNCHANGED << old_profile, initiated, co_log >>
    /\ UNCHANGED << now, current_profile, provisioned >>
    /\ UNCHANGED rs_vars
    /\ UNCHANGED other_vars

\* scaling up: await self.scale_up_to_profile(new_profile), then sleep(60)
CoScaleUpToProfile(ok) ==
    /\ co_pc = "scale_up_to_profile"
    /\ IF ok
       THEN /\ provisioned' = provisioned \cup {optimal_profile.name}
            /\ co_pc' = "settle"
            /\ co_wake' = now + settle_seconds
            /\ UNCHANGED << current_profile, cost_metrics, co_failed, ticks >>
       ELSE RaiseInTransition("scale_up_to_profile")
    /\ co_log' = Append(co_log, Operation("scale_up_to_profile", optimal_profile, ok))
    /\ UNCHANGED << now, current_metrics, optimal_profile, old_profile, initiated >>
    /\ UNCHANGED rs_vars
    /\ UNCHANGED other_vars

\* a bug: the old capacity is removed without the settle delay
CoSettled_NoWait ==
    /\ co_pc = "settle"
    /\ co_pc' = "scale_down_from_profile"
    /\ co_log' = Append(co_log, Operation("sleep", NoProfile, TRUE))
    /\ UNCHANGED << now, current_profile, cost_metrics, co_wake, current_metrics,
                    optimal_profile, old_profile, co_failed, provisioned, initiated,
                    ticks >>
    /\ UNCHANGED rs_vars
    /\ UNCHANGED other_vars

\* await asyncio.sleep(60) is over
CoSettled ==
    /\ co_pc = "settle"
    /\ now >= co_wake
    /\ co_pc' = "scale_down_from_profile"
    /\ co_log' = Append(co_log, Operation("sleep", NoProfile, TRUE))
    /\ UNCHANGED << now, current_profile, cost_metrics, co_wake, current_metrics,
                    optimal_profile, old_profile, co_failed, provisioned, initiated,
                    ticks >>
    /\ UNCHANGED rs_vars
    /\ UNCHANGED other_vars

\* scaling up: await self.scale_down_from_profile(old_profile), then the rest of
\* the cycle
CoScaleDownFromProfile(ok) ==
    /\ co_pc = "scale_down_from_profile"
    /\ IF ok
       THEN /\ provisioned' = provisioned \ {old_profile.name}
            /\ current_profile' = optimal_profile
            /\ FinishCycle(optimal_profile, current_metrics)
            /\ co_log' = co_log \o << Operation("scale_down_from_profile", old_profile, TRUE),
                                     Assignment(optimal_profile) >>
            /\ UNCHANGED co_failed
       ELSE /\ RaiseInTransition("scale_down_from_profile")
            /\ co_log' = Append(co_log,
                                Operation("scale_down_from_profile", old_profile, FALSE))
    /\ UNCHANGED << now, current_metrics, optimal_profile, old_profile, initiated >>
    /\ UNCHANGED rs_vars
    /\ UNCHANGED other_vars

\* scaling down: await self.drain_connections(), which sleeps 30 s
CoDrainConnections(ok) ==
    /\ co_pc = "drain_connections"
    /\ IF ok
       THEN /\ co_pc' = "draining"
            /\ co_wake' = now + drain_seconds
            /\ UNCHANGED << current_profile, cost_metrics, co_failed, provisioned,
                            ticks, co_log >>
       ELSE /\ RaiseInTransition("drain_connections")
            /\ co_log' = Append(co_log, Operation("drain_connections", NoProfile, FALSE))
    /\ UNCHANGED << now, current_metrics, optimal_profile, old_profile, initiated >>
    /\ UNCHANGED rs_vars
    /\ UNCHANGED other_vars

\* a bug: drain_connections returns without its delay
CoDrained_NoWait ==
    /\ co_pc = "draining"
    /\ co_pc' = "down_scale_down_from_profile"
    /\ co_log' = Append(co_log, Operation("drain_connections", NoProfile, TRUE))
    /\ UNCHANGED << now, current_profile, cost_metrics, co_wake, current_metrics,
                    optimal_profile, old_profile, co_failed, provisioned, initiated,
                    ticks >>
    /\ UNCHANGED rs_vars
    /\ UNCHANGED other_vars

\* the sleep(30) of drain_connections is over: drain_connections returns
CoDrained ==
    /\ co_pc = "draining"
    /\ now >= co_wake
    /\ co_pc' = "down_scale_down_from_profile"
    /\ co_log' = Append(co_log, Operation("drain_connections", NoProfile, TRUE))
    /\ UNCHANGED << now, current_profile, cost_metrics, co_wake, current_metrics,
                    optimal_profile, old_profile, co_failed, provisioned, initiated,
                    ticks >>
    /\ UNCHANGED rs_vars
    /\ UNCHANGED other_vars

\* scaling down: await self.scale_down_from_profile(old_profile)
CoDownScaleDownFromProfile(ok) ==
    /\ co_pc = "down_scale_down_from_profile"
    /\ IF ok
       THEN /\ provisioned' = provisioned \ {old_profile.name}
            /\ co_pc' = "down_scale_up_to_profile"
            /\ UNCHANGED << current_profile, cost_metrics, co_wake, co_failed, ticks >>
       ELSE RaiseInTransition("scale_down_from_profile")
    /\ co_log' = Append(co_log, Operation("scale_down_from_profile", old_profile, ok))
    /\ UNCHANGED << now, current_metrics, optimal_profile, old_profile, initiated >>
    /\ UNCHANGED rs_vars
    /\ UNCHANGED other_vars

\* scaling down: await self.scale_up_to_profile(new_profile), then the rest of
\* the cycle
CoDownScaleUpToProfile(ok) ==
    /\ co_pc = "down_scale_up_to_profile"
    /\ IF ok
       THEN /\ provisioned' = provisioned \cup {optimal_profile.name}
            /\ current_profile' = optimal_profile
            /\ FinishCycle(optimal_profile, current_metrics)
            /\ co_log' = co_log \o << Operation("scale_up_to_profile", optimal_profile, TRUE),
                                     Assignment(optimal_profile) >>
            /\ UNCHANGED co_failed
       ELSE /\ RaiseInTransition("scale_up_to_profile")
            /\ co_log' = Append(co_log,
                                Operation("scale_up_to_profile", optimal_profile, FALSE))
    /\ UNCHANGED << now, current_metrics, optimal_profile, old_profile, initiated >>
    /\ UNCHANGED rs_vars
    /\ UNCHANGED other_vars

\* ------------------------------------------ RequestBasedScaler.monitor_and_scale
RECURSIVE SumSeq(_)
SumSeq(seq) == IF seq = << >> THEN 0 ELSE Head(seq) + SumSeq(Tail(seq))

\* get_average_response_time() > threshold and < threshold, in milliseconds:
\* 0.0 for an empty deque, else sum / len
AverageAbove(response_times, threshold) ==
    IF response_times = << >>
    THEN 0 > threshold
    ELSE SumSeq(response_times) > threshold * Len(response_times)

AverageBelow(response_times, threshold) ==
    IF response_times = << >>
    THEN 0 < threshold
    ELSE SumSeq(response_times) < threshold * Len(response_times)

\* a bug: the cooldown is over as soon as scale_cooldown seconds have passed
CooldownElapsed_AtLeast(time, last) == (time - last) >= scale_cooldown

CooldownElapsed(time, last) == (time - last) > scale_cooldown

\* the two conditions of a poll, for a scaler made with target_queue_size = target
should_scale_up(target, queue_size, response_times, time, last) ==
    /\ queue_size > target \/ AverageAbove(response_times, 5000)
    /\ CooldownElapsed(time, last)

\* a bug: a short queue or fast responses are enough to scale down
should_scale_down_Either(target, queue_size, response_times, time, last) ==
    /\ queue_size < target \div 2 \/ AverageBelow(response_times, 2000)
    /\ CooldownElapsed(time, last)

should_scale_down(target, queue_size, response_times, time, last) ==
    /\ queue_size < target \div 2 /\ AverageBelow(response_times, 2000)
    /\ CooldownElapsed(time, last)

\* what one poll does: if should_scale_up ... elif should_scale_down ...
poll_decision(target, queue_size, response_times, time, last) ==
    IF should_scale_up(target, queue_size, response_times, time, last)
    THEN "scale_up"
    ELSE IF should_scale_down(target, queue_size, response_times, time, last)
    THEN "scale_down"
    ELSE "none"

\* what the poll finds in request_queue and in the response_times deque
QueueSizes == { 0, 4, 5, 10, 11 }
ResponseTimes == { << >>, << 1500 >>, << 2000 >>, << 4000, 6000 >>, << 4000, 8000 >> }

\* one cycle up to its first await that suspends
RsPoll(queue_size, response_times) ==
    /\ rs_pc = "sleep"
    /\ now >= rs_wake
    /\ current_time' = now
    /\ IF should_scale_up(target_queue_size, queue_size, response_times, now,
                          last_scale_time)
       THEN /\ rs_pc' = "scale_up"
            /\ initiated' = Append(initiated, [loop |-> "fast", time |-> now])
            /\ UNCHANGED rs_wake
       ELSE IF should_scale_down(target_queue_size, queue_size, response_times, now,
                                 last_scale_time)
       THEN /\ rs_pc' = "scale_down"
            /\ initiated' = Append(initiated, [loop |-> "fast", time |-> now])
            /\ UNCHANGED rs_wake
       ELSE /\ rs_wake' = now + fast_poll_seconds
            /\ UNCHANGED << rs_pc, initiated >>
    /\ UNCHANGED << now, last_scale_time, provisioned >>
    /\ UNCHANGED co_vars
    /\ UNCHANGED other_vars

\* await self.scale_up() returns or raises; nothing in monitor_and_scale catches
RsScaleUp(ok) ==
    /\ rs_pc = "scale_up"
    /\ IF ok
       THEN /\ last_scale_time' = current_time
            /\ rs_pc' = "sleep"
            /\ rs_wake' = now + fast_poll_seconds
       ELSE /\ rs_pc' = "terminated"
            /\ UNCHANGED << last_scale_time, rs_wake >>
    /\ UNCHANGED << now, current_time, provisioned, initiated >>
    /\ UNCHANGED co_vars
    /\ UNCHANGED other_vars

\* await self.scale_down() returns or raises
RsScaleDown(ok) ==
    /\ rs_pc = "scale_down"
    /\ IF ok
       THEN /\ last_scale_time' = current_time
            /\ rs_pc' = "sleep"
            /\ rs_wake' = now + fast_poll_seconds
       ELSE /\ rs_pc' = "terminated"
            /\ UNCHANGED << last_scale_time, rs_wake >>
    /\ UNCHANGED << now, current_time, provisioned, initiated >>
    /\ UNCHANGED co_vars
    /\ UNCHANGED other_vars

\* ------------------------------------------------------------------- time
\* the sleeps that are pending
WakeTimes ==
    (IF co_pc \in {"sleep", "settle", "draining"} THEN {co_wake} ELSE {})
    \cup (IF rs_pc = "sleep" THEN {rs_wake} ELSE {})

\* The event loop has nothing to run: time passes until the first sleep ends.
\* A coroutine whose executor operation never completes ("hung") is not run.
Tick ==
    /\ co_pc \in {"sleep", "settle", "draining", "hung"}
    /\ rs_pc \in {"sleep", "terminated", "hung"}
    /\ WakeTimes # {}
    /\ \A w \in WakeTimes : w > now
    /\ now' = SetMin(WakeTimes)
    /\ now' <= StartTime + Horizon
    /\ UNCHANGED << provisioned, initiated >>
    /\ UNCHANGED co_vars
    /\ UNCHANGED rs_vars
    /\ UNCHANGED other_vars

Next ==
    \/ \E m \in Snapshots : CoPoll(m)
    \/ \E ok \in BOOLEAN : CoScaleUpToProfile(ok)
    \/ CoSettled
    \/ \E ok \in BOOLEAN : CoScaleDownFromProfile(ok)
    \/ \E ok \in BOOLEAN : CoDrainConnections(ok)
    \/ CoDrained
    \/ \E ok \in BOOLEAN : CoDownScaleDownFromProfile(ok)
    \/ \E ok \in BOOLEAN : CoDownScaleUpToProfile(ok)
    \/ \E q \in QueueSizes, rt \in ResponseTimes : RsPoll(q, rt)
    \/ \E ok \in BOOLEAN : RsScaleUp(ok)
    \/ \E ok \in BOOLEAN : RsScaleDown(ok)
    \/ Tick

Spec == Init /\ [][Next]_vars

\* ------------------------------------------- executor operations that hang
\* The awaits of transition_to_profile on the executor: none is wrapped in
\* asyncio.wait_for or any other timeout.
CoExecutorPcs ==
    { "scale_up_to_profile", "scale_down_from_profile", "drain_connections",
      "down_scale_down_from_profile", "down_scale_up_to_profile" }

RsExecutorPcs == { "scale_up", "scale_down" }

\* the awaited executor operation never completes: the coroutine stays
\* suspended in it, and no statement of the loop runs again
CoExecutorHangs ==
    /\ co_pc \in CoExecutorPcs
    /\ co_pc' = "hung"
    /\ UNCHANGED << now, current_profile, cost_metrics, co_wake, current_metrics,
                    optimal_profile, old_profile, co_failed, provisioned, initiated,
                    ticks, co_log >>
    /\ UNCHANGED rs_vars
    /\ UNCHANGED other_vars

RsExecutorHangs ==
    /\ rs_pc \in RsExecutorPcs
    /\ rs_pc' = "hung"
    /\ UNCHANGED << now, last_scale_time, rs_wake, current_time, provisioned,
                    initiated >>
    /\ UNCHANGED co_vars
    /\ UNCHANGED other_vars

\* the steps of the cost loop, of the fast loop
CoNext ==
    \/ \E m \in Snapshots : CoPoll(m)
    \/ \E ok \in BOOLEAN : CoScaleUpToProfile(ok)
    \/ CoSettled
    \/ \E ok \in BOOLEAN : CoScaleDownFromProfile(ok)
    \/ \E ok \in BOOLEAN : CoDrainConnections(ok)
    \/ CoDrained
    \/ \E ok \in BOOLEAN : CoDownScaleDownFromProfile(ok)
    \/ \E ok \in BOOLEAN : CoDownScaleUpToProfile(ok)

RsNext ==
    \/ \E q \in QueueSizes, rt \in ResponseTimes : RsPoll(q, rt)
    \/ \E ok \in BOOLEAN : RsScaleUp(ok)
    \/ \E ok \in BOOLEAN : RsScaleDown(ok)

NextStuck ==
    \/ CoNext
    \/ RsNext
    \/ Tick
    \/ CoExecutorHangs
    \/ RsExecutorHangs

\* The event loop runs every coroutine that is ready and lets time pass; an
\* executor operation may complete, raise, or hang.
FairSpec ==
    /\ Init
    /\ [][NextStuck]_vars
    /\ WF_vars(CoNext)
    /\ WF_vars(RsNext)
    /\ WF_vars(Tick)

\* ----------------------------------------- calculate_optimal_profile, alone
\* The snapshots and controller states calculate_optimal_profile is called with.
SelectSnapshots ==
    { Metrics(au, rpm, cpu, mem, gpu) :
        au \in { 0, 5, 10, 11, 60, 75, 400, 401 },
        rpm \in { 0, 5, 50, 120, 125, 126, 500, 501 },
        cpu \in { 10, 50, 65, 100 },
        mem \in { 10, 70 },
        gpu \in { NoGpu, 0, 80 } }

InitSelect ==
    /\ now = StartTime
    /\ current_profile \in Catalog
    /\ cost_metrics \in
          { EmptyLedger,
            update_cost_metrics(EmptyLedger, default_profile, StubMetrics, StartTime) }
    /\ co_pc = "sleep"
    /\ co_wake = StartTime
    /\ current_metrics \in SelectSnapshots
    /\ optimal_profile = NoProfile
    /\ old_profile = NoProfile
    /\ co_failed = "none"
    /\ last_scale_time = 0
    /\ rs_pc = "sleep"
    /\ rs_wake = StartTime
    /\ current_time = 0
    /\ provisioned = {current_profile.name}
    /\ initiated = << >>
    /\ ticks = << >>
    /\ co_log = << >>
    /\ GpuInit
    /\ SecurityInit(default_limit, default_window)
    /\ CallInit
    /\ ForecastInit(168, Feed(900, "present"))

\* optimal_profile = self.calculate_optimal_profile(current_metrics)
SelectCall ==
    /\ optimal_profile = NoProfile
    /\ optimal_profile' = calculate_optimal_profile(Self, current_metrics)
    /\ UNCHANGED << now, current_profile, cost_metrics, co_pc, co_wake,
                    current_metrics, old_profile, co_failed, provisioned, initiated,
                    ticks, co_log >>
    /\ UNCHANGED rs_vars
    /\ UNCHANGED other_vars

NextSelect == SelectCall

SpecSelect == InitSelect /\ [][NextSelect]_vars

\* ---------------------------------------------------- GPUResourceManager
GPUMetrics(id, util, used, total) ==
    [gpu_id |-> id, utilization |-> util, memory_used |-> used,
     memory_total |-> total, temperature |-> 60, power_draw |-> 0]

\* what GPUtil.getGPUs() reports at a sample: no GPU; the two GPUs of scenario C;
\* two equally loaded GPUs, the higher id listed first; one GPU at the target
\* utilization and one above it
GpuLists ==
    { << >>,
      << GPUMetrics(0, 90, 6, 8), GPUMetrics(1, 30, 0, 8) >>,
      << GPUMetrics(1, 40, 0, 8), GPUMetrics(0, 40, 0, 8) >>,
      << GPUMetrics(0, 80, 0, 8), GPUMetrics(1, 100, 0, 8) >> }

MemoryRequirements == { 4, 9 }

\* a bug: <= where < is meant
IsAvailable_AtTarget(gpu, memory_requirement, target) ==
    /\ (gpu.memory_total - gpu.memory_used) >= memory_requirement
    /\ gpu.utilization <= target

\* the condition of the list comprehension of find_optimal_gpu
IsAvailable(gpu, memory_requirement, target) ==
    /\ (gpu.memory_total - gpu.memory_used) >= memory_requirement
    /\ gpu.utilization < target

available_gpus(metrics, memory_requirement, target) ==
    SelectSeq(metrics, LAMBDA gpu : IsAvailable(gpu, memory_requirement, target))

\* min(available_gpus, key=lambda g: g.utilization): the first minimal element
MinByUtilization(seq) ==
    seq[CHOOSE i \in DOMAIN seq :
          /\ \A j \in DOMAIN seq : seq[i].utilization <= seq[j].utilization
          /\ \A j \in DOMAIN seq :
                seq[j].utilization = seq[i].utilization => i <= j]

\* find_optimal_gpu after metrics = self.get_gpu_metrics()
find_optimal_gpu(metrics, memory_requirement, target) ==
    LET available == available_gpus(metrics, memory_requirement, target)
    IN  IF available = << >>
        THEN NoneGpu
        ELSE MinByUtilization(available).gpu_id

\* seq[-n:]
LastN(seq, n) ==
    IF Len(seq) <= n THEN seq ELSE SubSeq(seq, Len(seq) - n + 1, Len(seq))

RECURSIVE UtilizationSum(_)
UtilizationSum(measurement) ==
    IF measurement = << >>
    THEN 0
    ELSE Head(measurement).utilization + UtilizationSum(Tail(measurement))

RECURSIVE LenProduct(_)
LenProduct(measurements) ==
    IF measurements = << >>
    THEN 1
    ELSE Len(Head(measurements)) * LenProduct(Tail(measurements))

\* sum(sum(utilization) / len(measurement)), times LenProduct(measurements)
RECURSIVE ScaledMeanSum(_, _)
ScaledMeanSum(measurements, scale) ==
    IF measurements = << >>
    THEN 0
    ELSE UtilizationSum(Head(measurements)) * (scale \div Len(Head(measurements)))
         + ScaledMeanSum(Tail(measurements), scale)

\* a bug: four samples are taken for enough
gpu_should_scale_up_Four(history, target) ==
    LET recent == LastN(history, gpu_window)
    IN  IF Len(recent) < 4
        THEN "False"
        ELSE IF \E i \in DOMAIN recent : recent[i] = << >>
        THEN "ZeroDivisionError"
        ELSE IF ScaledMeanSum(recent, LenProduct(recent))
                  > target * Len(recent) * LenProduct(recent)
        THEN "True"
        ELSE "False"

\* GPUResourceManager.should_scale_up: "True", "False", or the exception of
\* sum(...) / len(measurement) for a measurement without GPUs
gpu_should_scale_up(history, target) ==
    LET recent == LastN(history, gpu_window)
    IN  IF Len(recent) < 5
        THEN "False"
        ELSE IF \E i \in DOMAIN recent : recent[i] = << >>
        THEN "ZeroDivisionError"
        ELSE IF ScaledMeanSum(recent, LenProduct(recent))
                  > target * Len(recent) * LenProduct(recent)
        THEN "True"
        ELSE "False"

\* deque.append on a deque with maxlen
deque_append(deque, x, maxlen) ==
    IF Len(deque) >= maxlen THEN Append(Tail(deque), x) ELSE Append(deque, x)

\* get_gpu_metrics(), called for telemetry
GetGpuMetrics(gpus) ==
    /\ Len(gpu_metrics_history) < MaxGpuSamples
    /\ response_times_deque = << >>
    /\ gpu_metrics_history' = Append(gpu_metrics_history, gpus)
    /\ gpu_call' = [op |-> "get_gpu_metrics", result |-> gpus]
    /\ UNCHANGED response_times_deque
    /\ UNCHANGED << ctl_vars, fc_vars, call_vars, sec_vars >>

\* find_optimal_gpu(memory_requirement): it samples, then selects
FindOptimalGpu(gpus, memory_requirement) ==
    /\ Len(gpu_metrics_history) < MaxGpuSamples
    /\ response_times_deque = << >>
    /\ gpu_metrics_history' = Append(gpu_metrics_history, gpus)
    /\ gpu_call' =
          [op |-> "find_optimal_gpu", metrics |-> gpus,
           memory_requirement |-> memory_requirement,
           result |-> find_optimal_gpu(gpus, memory_requirement,
                                       gpu_target_utilization)]
    /\ UNCHANGED response_times_deque
    /\ UNCHANGED << ctl_vars, fc_vars, call_vars, sec_vars >>

\* should_scale_up()
ShouldScaleUp ==
    /\ response_times_deque = << >>
    /\ gpu_call' =
          [op |-> "should_scale_up",
           result |-> gpu_should_scale_up(gpu_metrics_history,
                                          gpu_target_utilization)]
    /\ UNCHANGED << gpu_metrics_history, response_times_deque >>
    /\ UNCHANGED << ctl_vars, fc_vars, call_vars, sec_vars >>

\* self.response_times.append(sample): the k-th sample recorded is k ms.  A
\* behaviour follows either this history or the GPU history.
RecordResponseTime ==
    /\ gpu_metrics_history = << >>
    /\ gpu_call = NoCall
    /\ LET sample == IF response_times_deque = << >>
                     THEN 1
                     ELSE response_times_deque[Len(response_times_deque)] + 1
       IN  /\ sample <= MaxResponseSamples
           /\ response_times_deque' =
                 deque_append(response_times_deque, sample, response_times_maxlen)
    /\ UNCHANGED << gpu_metrics_history, gpu_call >>
    /\ UNCHANGED << ctl_vars, fc_vars, call_vars, sec_vars >>

NextTelemetry ==
    \/ \E gpus \in GpuLists : GetGpuMetrics(gpus)
    \/ \E gpus \in GpuLists, m \in MemoryRequirements : FindOptimalGpu(gpus, m)
    \/ ShouldScaleUp
    \/ RecordResponseTime

SpecTelemetry == Init /\ [][NextTelemetry]_vars

\* ------------------------------------------------------- PredictiveScaler
\* The forecasters followed: history_window (hours) and the collector's feed.
\* A feed gives a row every `seconds`; its gpu_usage is "present", "absent"
\* (a host without GPU: every row misses it) or "lost" (missing from row 121 on).
ForecastConfigs ==
    { << 168, Feed(900, "present") >>,
      << 168, Feed(86400, "present") >>,
      << 168, Feed(900, "absent") >>,
      << 5, Feed(900, "lost") >>,
      << 1, Feed(900, "present") >>,
      << 0, Feed(900, "present") >> }

\* the number of the row the collector hands over next
NextRowNumber ==
    IF metrics_history = << >>
    THEN 1
    ELSE (metrics_history[Len(metrics_history)].timestamp - StartTime)
            \div feed.seconds + 2

\* the arguments of the k-th collect_metrics call
FeedRow(k) ==
    [timestamp |-> StartTime + (k - 1) * feed.seconds,
     request_count |-> 100 + 50 * (k % 3),
     response_time |-> 1500,
     cpu_usage |-> 50,
     memory_usage |-> 50,
     gpu_usage |-> IF feed.gpu = "absent" \/ (feed.gpu = "lost" /\ k > 120)
                   THEN NaN ELSE 80]

\* the row collect_metrics appends: hour and dayofweek of pd.to_datetime
HistoryRow(a) ==
    [timestamp |-> a.timestamp,
     hour_of_day |-> (a.timestamp \div 3600) % 24,
     day_of_week |-> ((a.timestamp \div 86400) + 3) % 7,
     request_count |-> a.request_count,
     response_time |-> a.response_time,
     cpu_usage |-> a.cpu_usage,
     memory_usage |-> a.memory_usage,
     gpu_usage |-> a.gpu_usage]

\* seq[-n:], which is the whole list for n = 0
NegativeSlice(seq, n) == IF n = 0 THEN seq ELSE LastN(seq, n)

\* metrics_history after collect_metrics
collect_metrics(history, window, a) ==
    LET appended == Append(history, HistoryRow(a))
    IN  IF Len(appended) > window * rows_per_hour
        THEN NegativeSlice(appended, window * rows_per_hour)
        ELSE appended

\* the rows of df that df.dropna() keeps, the lag columns added
RowsAfterDropna(history) ==
    { i \in DOMAIN history :
        /\ i > lag_24h
        /\ history[i].request_count # NaN
        /\ history[i].response_time # NaN
        /\ history[i].cpu_usage # NaN
        /\ history[i].memory_usage # NaN
        /\ history[i].gpu_usage # NaN
        /\ \A lag \in {lag_1h, lag_24h} :
              /\ history[i - lag].request_count # NaN
              /\ history[i - lag].response_time # NaN
              /\ history[i - lag].cpu_usage # NaN }

\* a bug: the rows lost to the lag features are not counted
train_model_check_OnlyLength(history) ==
    IF Len(history) < min_history_rows THEN "False" ELSE "fit"

\* what train_model does before it fits: "False", or "fit"
train_model_check(history) ==
    IF Len(history) < min_history_rows
    THEN "False"
    ELSE IF Cardinality(RowsAfterDropna(history)) < min_training_rows
    THEN "False"
    ELSE "fit"

\* the data a fit of this history is made on: named by its last row
FitData(history) == history[Len(history)].timestamp

\* the fitted state a caller of predict_scaling_need finds
Published == << scaler_fit, model_fit, is_trained >>

\* a bug: the result is never below one instance
predict_scaling_need_AtLeastOne(trained, current_instances) ==
    IF ~ trained
    THEN [returned |-> Max2(1, current_instances)]
    ELSE [raised |-> "NameError"]

\* predict_scaling_need: untrained it returns current_instances; trained it
\* reaches time.time() (line 78) in a module that does not import time
predict_scaling_need(trained, current_instances) ==
    IF ~ trained
    THEN [returned |-> current_instances]
    ELSE [raised |-> "NameError"]

\* the history sizes at which train_model and predict_scaling_need are called
CallPoints == { 0, 24, 47, 48, 119, 120, 121 }

CurrentInstances == { 0, 1, 3 }

CollectMetrics ==
    /\ NextRowNumber <= MaxRows
    /\ metrics_history' =
          collect_metrics(metrics_history, history_window, FeedRow(NextRowNumber))
    /\ UNCHANGED << history_window, feed, is_trained, scaler_fit, model_fit, tr_pc,
                    tr_data, train_call, predict_call >>
    /\ UNCHANGED << ctl_vars, gpu_vars, call_vars, sec_vars >>

\* train_model up to its first fit (lines 35-63)
TrainBegin ==
    /\ tr_pc = "idle"
    /\ Len(metrics_history) \in CallPoints
    /\ IF train_model_check(metrics_history) = "False"
       THEN /\ train_call' = [op |-> "train_model", rows |-> Len(metrics_history),
                              before |-> Published, result |-> "False"]
            /\ UNCHANGED << tr_pc, tr_data >>
       ELSE /\ train_call' = [op |-> "train_model", rows |-> Len(metrics_history),
                              before |-> Published, result |-> "running"]
            /\ tr_pc' = "fit_scaler"
            /\ tr_data' = FitData(metrics_history)
    /\ UNCHANGED << history_window, feed, metrics_history, is_trained, scaler_fit,
                    model_fit, predict_call >>
    /\ UNCHANGED << ctl_vars, gpu_vars, call_vars, sec_vars >>

\* X_scaled = self.scaler.fit_transform(X)
TrainFitScaler ==
    /\ tr_pc = "fit_scaler"
    /\ scaler_fit' = tr_data
    /\ tr_pc' = "fit_model"
    /\ UNCHANGED << history_window, feed, metrics_history, is_trained, model_fit,
                    tr_data, train_call, predict_call >>
    /\ UNCHANGED << ctl_vars, gpu_vars, call_vars, sec_vars >>

\* self.model.fit(X_scaled, y); self.is_trained = True; return True
TrainFitModel ==
    /\ tr_pc = "fit_model"
    /\ model_fit' = tr_data
    /\ is_trained' = TRUE
    /\ tr_pc' = "idle"
    /\ train_call' = [train_call EXCEPT !.result = "True"]
    /\ UNCHANGED << history_window, feed, metrics_history, scaler_fit, tr_data,
                    predict_call >>
    /\ UNCHANGED << ctl_vars, gpu_vars, call_vars, sec_vars >>

PredictScalingNeed(current_instances) ==
    /\ Len(metrics_history) \in CallPoints
    /\ predict_call' =
          [op |-> "predict_scaling_need", current_instances |-> current_instances,
           trained |-> is_trained, rows |-> Len(metrics_history),
           scaler |-> scaler_fit, model |-> model_fit,
           last_train |-> train_call.op = "train_model" /\ train_call.result = "False",
           result |-> predict_scaling_need(is_trained, current_instances)]
    /\ UNCHANGED << history_window, feed, metrics_history, is_trained, scaler_fit,
                    model_fit, tr_pc, tr_data, train_call >>
    /\ UNCHANGED << ctl_vars, gpu_vars, call_vars, sec_vars >>

InitForecast ==
    /\ now = StartTime
    /\ current_profile = default_profile
    /\ cost_metrics = EmptyLedger
    /\ co_pc = "sleep"
    /\ co_wake = StartTime
    /\ current_metrics = NoMetrics
    /\ optimal_profile = NoProfile
    /\ old_profile = NoProfile
    /\ co_failed = "none"
    /\ last_scale_time = 0
    /\ rs_pc = "sleep"
    /\ rs_wake = StartTime
    /\ current_time = 0
    /\ provisioned = {default_profile.name}
    /\ initiated = << >>
    /\ ticks = << >>
    /\ co_log = << >>
    /\ GpuInit
    /\ SecurityInit(default_limit, default_window)
    /\ CallInit
    /\ \E config \in ForecastConfigs : ForecastInit(config[1], config[2])

NextForecast ==
    \/ CollectMetrics
    \/ TrainBegin
    \/ TrainFitScaler
    \/ TrainFitModel
    \/ \E c \in CurrentInstances : PredictScalingNeed(c)

SpecForecast == InitForecast /\ [][NextForecast]_vars

\* ------------------------------------------------------ the cost ledger
\* sorted(self.cost_metrics.keys())
RECURSIVE SortedKeys(_)
SortedKeys(keys) ==
    IF keys = {}
    THEN << >>
    ELSE LET least == SetMin(keys)
         IN  << least >> \o SortedKeys(keys \ {least})

RECURSIVE SumOver(_, _, _)
SumOver(ledger, hours, field) ==
    IF hours = << >>
    THEN 0
    ELSE ledger[Head(hours)][field] + SumOver(ledger, Tail(hours), field)

\* generate_cost_report(hours).  cost_per_request is the quotient
\* total_cost / max(total_requests, 1), kept as its two terms; the
\* recommendations (line 171) read the ledger and change nothing.
generate_cost_report(ledger, hours) ==
    LET recent_hours == NegativeSlice(SortedKeys(DOMAIN ledger), hours)
        total_cost == SumOver(ledger, recent_hours, "cost")
        total_requests == SumOver(ledger, recent_hours, "requests")
    IN  [period_hours |-> hours,
         total_cost |-> total_cost,
         total_requests |-> total_requests,
         cost_per_request |->
            [kind |-> "number", numerator |-> total_cost,
             denominator |-> Max2(total_requests, 1)],
         cost_breakdown |->
            [h \in { recent_hours[i] : i \in DOMAIN recent_hours } |-> ledger[h]]]

\* the profiles and snapshots the ledger is followed with
LedgerProfiles == { resource_profiles[3], resource_profiles[6] }
LedgerSnapshots == { StubMetrics, Metrics(0, 0, 10, 10, NoGpu) }
ReportHours == { 0, 1, 2, 24 }

\* a cycle of monitor_usage_and_optimize that ends in update_cost_metrics and
\* sleep(300); the transition it may have made left current_profile = profile
LedgerCycle(profile, m) ==
    /\ Len(ticks) < MaxTicks
    /\ current_profile' = profile
    /\ current_metrics' = m
    /\ cost_metrics' = update_cost_metrics(cost_metrics, profile, m, now)
    /\ ticks' = Append(ticks, CostTick(profile, m))
    /\ now' = now + slow_poll_seconds
    /\ UNCHANGED << co_pc, co_wake, optimal_profile, old_profile, co_failed,
                    provisioned, initiated, co_log >>
    /\ UNCHANGED rs_vars
    /\ UNCHANGED other_vars

\* cycles that raised before update_cost_metrics: only their sleeps pass
LedgerCyclesRaised(cycles) ==
    /\ now + cycles * slow_poll_seconds <= StartTime + LedgerHorizon
    /\ now' = now + cycles * slow_poll_seconds
    /\ UNCHANGED << provisioned, initiated >>
    /\ UNCHANGED co_vars
    /\ UNCHANGED rs_vars
    /\ UNCHANGED other_vars

\* report = optimizer.generate_cost_report(hours)
GenerateCostReport(hours) ==
    /\ cost_report' = [op |-> "generate_cost_report", hours |-> hours,
                       ledger |-> cost_metrics,
                       report |-> generate_cost_report(cost_metrics, hours)]
    /\ UNCHANGED poll_call
    /\ UNCHANGED << ctl_vars, gpu_vars, fc_vars, sec_vars >>

NextLedger ==
    \/ \E profile \in LedgerProfiles, m \in LedgerSnapshots : LedgerCycle(profile, m)
    \/ \E cycles \in { 8, 12 } : LedgerCyclesRaised(cycles)
    \/ \E hours \in ReportHours : GenerateCostReport(hours)

SpecLedger == Init /\ [][NextLedger]_vars

\* ------------------------------------------- one poll of monitor_and_scale
\* The scalers, queue depths, response times and clocks a poll is looked at with.
PollTargets == { 0, 1, 10, 11 }
PollQueueSizes == { 0, 4, 5, 6, 10, 11, 12 }
PollResponseTimes ==
    { << >>, << 1500 >>, << 2000 >>, << 4000, 6000 >>, << 4000, 8000 >> }
PollLastScaleTimes ==
    { 0, StartTime - scale_cooldown - 1, StartTime - scale_cooldown,
      StartTime - scale_cooldown + 1, StartTime }

InitPoll ==
    /\ now = StartTime
    /\ current_profile = default_profile
    /\ cost_metrics = EmptyLedger
    /\ co_pc = "sleep"
    /\ co_wake = StartTime
    /\ current_metrics = NoMetrics
    /\ optimal_profile = NoProfile
    /\ old_profile = NoProfile
    /\ co_failed = "none"
    /\ last_scale_time \in PollLastScaleTimes
    /\ rs_pc = "sleep"
    /\ rs_wake = StartTime
    /\ current_time = 0
    /\ provisioned = {default_profile.name}
    /\ initiated = << >>
    /\ ticks = << >>
    /\ co_log = << >>
    /\ GpuInit
    /\ SecurityInit(default_limit, default_window)
    /\ cost_report = NoCall
    /\ poll_call \in
          { [op |-> "poll", target_queue_size |-> target, queue_size |-> q,
             response_times |-> rt, decision |-> "pending"] :
               target \in PollTargets, q \in PollQueueSizes,
               rt \in PollResponseTimes }
    /\ ForecastInit(168, Feed(900, "present"))

\* lines 17-36 of one iteration, for the scaler and the inputs drawn
PollCall ==
    /\ poll_call.op = "poll"
    /\ poll_call.decision = "pending"
    /\ current_time' = now
    /\ poll_call' =
          [poll_call EXCEPT !.decision =
              poll_decision(poll_call.target_queue_size, poll_call.queue_size,
                            poll_call.response_times, now, last_scale_time)]
    /\ UNCHANGED << now, last_scale_time, rs_pc, rs_wake, provisioned, initiated >>
    /\ UNCHANGED co_vars
    /\ UNCHANGED << gpu_vars, fc_vars, cost_report, sec_vars >>

NextPoll == PollCall

SpecPoll == InitPoll /\ [][NextPoll]_vars

\* --------------------------------------------- the fast loop without load
\* The two loops, the fast one finding an empty request queue and an empty
\* response_times deque at every poll.
NextIdle ==
    \/ CoNext
    \/ RsPoll(0, << >>)
    \/ \E ok \in BOOLEAN : RsScaleDown(ok)
    \/ Tick

SpecIdle == Init /\ [][NextIdle]_vars

\* ------------------------------------------- AIAgentSecurity.check_rate_limit
RateUsers == { "alice", "bob" }

\* << limit, window >> the callers pass, the same at every call of a behaviour
RateConfigs == { << 2, 3 >>, << 1, 2 >>, << 3, 1 >>, << 0, 3 >>, << 2, 0 >> }

\* self.rate_limits.get(user_id), [] once line 87 has made the entry
RequestsOf(limits, user_id) ==
    IF user_id \in DOMAIN limits THEN limits[user_id] ELSE << >>

\* the requests a call at time `at` keeps: current_time - req_time < window
RecentRequests(requests, at, seconds) ==
    SelectSeq(requests, LAMBDA req_time : at - req_time < seconds)

check_rate_limit_OverLimit(requests, at, limit, seconds) ==
    LET recent == RecentRequests(requests, at, seconds)
    IN  IF Len(recent) > limit
        THEN [requests |-> recent, allowed |-> FALSE]
        ELSE [requests |-> Append(recent, at), allowed |-> TRUE]

\* check_rate_limit on the list of one user: the list it leaves and what it
\* returns
check_rate_limit(requests, at, limit, seconds) ==
    LET recent == RecentRequests(requests, at, seconds)
    IN  IF Len(recent) >= limit
        THEN [requests |-> recent, allowed |-> FALSE]
        ELSE [requests |-> Append(recent, at), allowed |-> TRUE]

InitRate ==
    /\ now = StartTime
    /\ current_profile = default_profile
    /\ cost_metrics = EmptyLedger
    /\ co_pc = "sleep"
    /\ co_wake = StartTime
    /\ current_metrics = NoMetrics
    /\ optimal_profile = NoProfile
    /\ old_profile = NoProfile
    /\ co_failed = "none"
    /\ last_scale_time = 0
    /\ rs_pc = "sleep"
    /\ rs_wake = StartTime
    /\ current_time = 0
    /\ provisioned = {default_profile.name}
    /\ initiated = << >>
    /\ ticks = << >>
    /\ co_log = << >>
    /\ GpuInit
    /\ CallInit
    /\ ForecastInit(168, Feed(900, "present"))
    /\ \E config \in RateConfigs : SecurityInit(config[1], config[2])

\* allowed = security.check_rate_limit(user_id, limit, window)
CheckRateLimit(user_id) ==
    LET checked == check_rate_limit(RequestsOf(rate_limits, user_id), wall_time,
                                    rate_limit, rate_window)
    IN  /\ Len(rate_calls) < MaxCalls
        /\ rate_limits' =
              [u \in DOMAIN rate_limits \cup {user_id} |->
                  IF u = user_id THEN checked.requests ELSE rate_limits[u]]
        /\ rate_calls' =
              Append(rate_calls, [user_id |-> user_id, time |-> wall_time,
                                  allowed |-> checked.allowed])
        /\ UNCHANGED << wall_time, rate_limit, rate_window >>
        /\ UNCHANGED << ctl_vars, gpu_vars, fc_vars, call_vars >>

\* time.time() moves on between two calls
TimePasses ==
    /\ wall_time < RateHorizon
    /\ wall_time' = wall_time + 1
    /\ UNCHANGED << rate_limits, rate_limit, rate_window, rate_calls >>
    /\ UNCHANGED << ctl_vars, gpu_vars, fc_vars, call_vars >>

NextRate ==
    \/ \E user_id \in RateUsers : CheckRateLimit(user_id)
    \/ TimePasses

SpecRate == InitRate /\ [][NextRate]_vars

\* ================================================================= claims
\* what the selection claims call requiredCapacity, times 10, for the snapshot of
\* the last call
RequiredTimes10 ==
    Max2(current_metrics.active_users * 10, current_metrics.requests_per_minute * 8)

Qualifying == { p \in Catalog : p.max_concurrent_users * 10 >= RequiredTimes10 }

Selected == optimal_profile # NoProfile

\* C1: any two transitions the controller initiates, by the fast loop or by the
\* cost loop, are initiated at least scale_cooldown seconds apart.
C1_CooldownInvariant ==
    \A i, j \in DOMAIN initiated :
        i < j => initiated[j].time - initiated[i].time >= scale_cooldown

\* C2: a transition of the cost loop and a scaling operation of the fast loop
\* are never in progress at the same time.
C2_NoConcurrentTransitions ==
    ~ (co_pc \in InTransitionPcs /\ rs_pc \in {"scale_up", "scale_down"})

\* C3: after an executor operation of transition_to_profile has raised,
\* current_profile is the profile the transition started from.
C3_FailedTransitionKeepsProfile ==
    co_failed # "none" => current_profile = old_profile

\* a scale-down transition whose last operation, scale_up_to_profile, raised after
\* the old capacity was removed
C3_Witness ==
    /\ co_failed = "scale_up_to_profile"
    /\ old_profile # NoProfile
    /\ optimal_profile.hourly_cost < old_profile.hourly_cost
    /\ old_profile.name \notin provisioned

\* C4: at every point of a transition the capacity of the old profile or of the
\* new profile is provisioned.
C4_NoResourceLoss ==
    co_pc \in InTransitionPcs =>
        old_profile.name \in provisioned \/ optimal_profile.name \in provisioned

\* C5: the cost loop starts no transition less than scale_cooldown seconds after
\* the transition initiated before it.
C5_CooldownGatesCostLoop ==
    \A j \in DOMAIN initiated :
        (j > 1 /\ initiated[j].loop = "cost") =>
            initiated[j].time - initiated[j - 1].time >= scale_cooldown

\* C6: an executor failure ends neither loop: the fast loop is never terminated,
\* and the cost loop, after a failure, sleeps until its next poll with the
\* profile it had before.
C6_FailureNeverFatal ==
    /\ rs_pc # "terminated"
    /\ co_failed # "none" => (co_pc = "sleep" /\ current_profile = old_profile)

\* C7: when some catalog profile has max_concurrent_users >= requiredCapacity,
\* the profile returned has.
C7_SelectedHasCapacity ==
    (Selected /\ Qualifying # {}) => optimal_profile \in Qualifying

\* scenario A: 60 active users, 50 requests per minute, cpu 0.5 select medium
C7_Witness ==
    /\ current_metrics = Metrics(60, 50, 50, 10, NoGpu)
    /\ optimal_profile.name = "medium"

\* C8: when no catalog profile has max_concurrent_users >= requiredCapacity, the
\* profile returned is the catalog's profile of highest capacity.
C8_FailOpenToLargest ==
    (Selected /\ Qualifying = {}) =>
        /\ optimal_profile \in Catalog
        /\ \A p \in Catalog :
              optimal_profile.max_concurrent_users >= p.max_concurrent_users

C8_Witness ==
    /\ Selected
    /\ current_metrics.active_users = 401
    /\ current_metrics.requests_per_minute = 0
    /\ optimal_profile.name = "xlarge"

\* the score of the claim, in cents: hourly_cost + |currentUtilization - 0.70| * 10
ClaimScore(p) ==
    LET gpu == IF current_metrics.gpu_utilization = NoGpu
               THEN 0 ELSE current_metrics.gpu_utilization
        cpu_mem == Max2(current_metrics.cpu_utilization,
                        current_metrics.memory_utilization)
    IN  p.hourly_cost + Abs(Max2(cpu_mem, gpu) - 70) * 10

CatalogIndex(p) == CHOOSE i \in DOMAIN resource_profiles : resource_profiles[i] = p

\* C9: among the qualifying profiles the one returned has the minimum score;
\* of equal scores the lower cost wins, then the earlier place in the catalog.
C9_MinimumScore ==
    (Selected /\ Qualifying # {}) =>
        /\ optimal_profile \in Qualifying
        /\ \A p \in Qualifying :
              \/ ClaimScore(optimal_profile) < ClaimScore(p)
              \/ /\ ClaimScore(optimal_profile) = ClaimScore(p)
                 /\ optimal_profile.hourly_cost < p.hourly_cost
              \/ /\ ClaimScore(optimal_profile) = ClaimScore(p)
                 /\ optimal_profile.hourly_cost = p.hourly_cost
                 /\ CatalogIndex(optimal_profile) <= CatalogIndex(p)

\* scenario B: 5 active users, 5 requests per minute, cpu 0.1 select nano
C9_Witness ==
    /\ current_metrics = Metrics(5, 5, 10, 10, NoGpu)
    /\ Cardinality(Qualifying) = Len(resource_profiles)
    /\ optimal_profile.name = "nano"

\* C10: the profile a call returned for its snapshot is the profile a call with
\* the same snapshot returns from every other state of the controller (another
\* current_profile, another cost ledger).
C10_SelectionIgnoresControllerState ==
    Selected =>
        \A p \in Catalog, ledger \in {EmptyLedger, cost_metrics} :
            calculate_optimal_profile(
                [Self EXCEPT !.current_profile = p, !.cost_metrics = ledger],
                current_metrics) = optimal_profile

\* a call made with a ledger that is not empty, from a current profile that could
\* carry the load but is not the one returned
C10_Witness ==
    /\ Selected
    /\ cost_metrics # EmptyLedger
    /\ current_profile \in Qualifying
    /\ current_profile # optimal_profile

\* what the placement claims call a qualifying GPU, for the last find_optimal_gpu
Qualifies(gpu) ==
    /\ gpu.memory_total - gpu.memory_used >= gpu_call.memory_requirement
    /\ gpu.utilization < 80

Placed == gpu_call.op = "find_optimal_gpu"

\* C11: find_optimal_gpu returns the id of no GPU that lacks the free memory or
\* whose utilization is at or above the target; it returns None exactly when no
\* GPU of the sample qualifies, the empty sample included.
C11_PlacementRespectsLimits ==
    Placed =>
        /\ \A i \in DOMAIN gpu_call.metrics :
              gpu_call.metrics[i].gpu_id = gpu_call.result
                  => Qualifies(gpu_call.metrics[i])
        /\ gpu_call.result # NoneGpu =>
              \E i \in DOMAIN gpu_call.metrics :
                  gpu_call.metrics[i].gpu_id = gpu_call.result
        /\ (\A i \in DOMAIN gpu_call.metrics : ~ Qualifies(gpu_call.metrics[i]))
              => gpu_call.result = NoneGpu

\* a GPU with the memory free and a utilization equal to the target is refused
C11_Witness ==
    /\ Placed
    /\ gpu_call.memory_requirement = 4
    /\ \E i \in DOMAIN gpu_call.metrics :
          /\ gpu_call.metrics[i].utilization = 80
          /\ gpu_call.metrics[i].memory_total - gpu_call.metrics[i].memory_used >= 4
    /\ gpu_call.result = NoneGpu

\* C12: the GPU returned has the lowest utilization of the candidates and, of the
\* candidates with that utilization, the lowest gpu_id, in whatever order the
\* GPUs are listed.
C12_LowestUtilizationThenLowestId ==
    (Placed /\ \E i \in DOMAIN gpu_call.metrics : Qualifies(gpu_call.metrics[i])) =>
        \E i \in DOMAIN gpu_call.metrics :
            /\ Qualifies(gpu_call.metrics[i])
            /\ gpu_call.metrics[i].gpu_id = gpu_call.result
            /\ \A j \in DOMAIN gpu_call.metrics :
                  Qualifies(gpu_call.metrics[j]) =>
                      \/ gpu_call.metrics[i].utilization < gpu_call.metrics[j].utilization
                      \/ /\ gpu_call.metrics[i].utilization
                              = gpu_call.metrics[j].utilization
                         /\ gpu_call.metrics[i].gpu_id <= gpu_call.metrics[j].gpu_id

\* C13: with fewer than 5 samples in the history, should_scale_up returns false.
C13_FewSamplesNoScaleUp ==
    (gpu_call.op = "should_scale_up" /\ Len(gpu_metrics_history) < 5)
        => gpu_call.result = "False"

\* four samples, every one with a mean utilization above the target
C13_Witness ==
    /\ gpu_call.op = "should_scale_up"
    /\ Len(gpu_metrics_history) = 4
    /\ \A i \in DOMAIN gpu_metrics_history :
          /\ gpu_metrics_history[i] # << >>
          /\ \A k \in DOMAIN gpu_metrics_history[i] :
                gpu_metrics_history[i][k].utilization >= 80
    /\ gpu_call.result = "False"

\* C14: should_scale_up returns a boolean for every history, and true exactly
\* when the history holds 5 samples or more and the mean over the last 5 of the
\* samples' mean utilization exceeds the target.
C14_ScaleUpIffMeanExceeds ==
    gpu_call.op = "should_scale_up" =>
        /\ gpu_call.result \in {"True", "False"}
        /\ gpu_call.result = "True" <=>
              /\ Len(gpu_metrics_history) >= 5
              /\ LET recent == LastN(gpu_metrics_history, 5)
                 IN  ScaledMeanSum(recent, LenProduct(recent))
                        > 80 * 5 * LenProduct(recent)

\* C20: the GPU history and the response-time history never hold more samples
\* than a fixed capacity (the 5 samples should_scale_up reads, the 100 of the
\* deque), and what they hold are the samples recorded last.
C20_BoundedHistories ==
    /\ Len(gpu_metrics_history) <= 5
    /\ Len(response_times_deque) <= 100
    /\ \A i \in 1 .. Len(response_times_deque) - 1 :
          response_times_deque[i + 1] = response_times_deque[i] + 1

\* C15: train_model with fewer than 48 history rows returns False; a call of
\* train_model that returns False leaves the fitted model, the fitted
\* normalizer and is_trained as they were before the call; and a
\* predict_scaling_need that follows such a call on a trained forecaster
\* still returns an answer.
C15_FailedTrainingKeepsOldModel ==
    /\ (train_call.op = "train_model" /\ train_call.rows < 48)
          => train_call.result = "False"
    /\ (train_call.op = "train_model" /\ train_call.result = "False")
          => << scaler_fit, model_fit, is_trained >> = train_call.before
    /\ (/\ predict_call.op = "predict_scaling_need"
        /\ predict_call.trained
        /\ predict_call.last_train)
          => "returned" \in DOMAIN predict_call.result

\* C16: a predict_scaling_need(current_instances) made while the forecaster is
\* untrained returns current_instances itself, whatever the history holds.
C16_UntrainedReturnsCurrentInstances ==
    (predict_call.op = "predict_scaling_need" /\ ~ predict_call.trained)
       => predict_call.result = [returned |-> predict_call.current_instances]

\* an untrained forecaster with an empty history was asked about 0 instances
C16_Witness ==
    /\ predict_call.op = "predict_scaling_need"
    /\ ~ predict_call.trained
    /\ predict_call.current_instances = 0
    /\ predict_call.rows = 0

\* C18: the pair (normalizer, regressor) that a prediction on a trained
\* forecaster finds is one fitted pair, the old one or the new one, also while
\* train_model is running.
C18_AtomicPublication ==
    (predict_call.op = "predict_scaling_need" /\ predict_call.trained)
       => predict_call.scaler = predict_call.model

\* C19: the history holds no row whose timestamp is more than history_window
\* hours older than that of the newest row.
C19_NoRowOlderThanWindow ==
    \A i \in DOMAIN metrics_history :
        metrics_history[Len(metrics_history)].timestamp - metrics_history[i].timestamp
           <= history_window * 3600

\* C17: a loop whose executor operation never completes does not stay in it
\* forever: the cost loop reports the transition as failed and is back at the
\* sleep that precedes its next poll, and so is the fast loop.
C17_StuckTransitionAbandoned ==
    /\ (co_pc = "hung") ~> (co_pc = "sleep" /\ co_failed # "none")
    /\ (rs_pc = "hung") ~> (rs_pc = "sleep")

\* the sum of a field over the ticks that fell in an hour
RECURSIVE TickSum(_, _, _)
TickSum(log, hour, field) ==
    IF log = << >>
    THEN 0
    ELSE (IF Head(log).time \div 3600 = hour THEN Head(log)[field] ELSE 0)
            + TickSum(Tail(log), hour, field)

TickHours == { ticks[i].time \div 3600 : i \in DOMAIN ticks }

\* C21: the ledger holds a bucket for exactly the hours in which
\* update_cost_metrics ticked; the cost of each bucket is the sum of
\* hourly_cost / 12 of the profile current at each of that hour's ticks, and its
\* request count the sum of those ticks' requests.
C21_BucketsSumTheirTicks ==
    /\ DOMAIN cost_metrics = TickHours
    /\ \A h \in DOMAIN cost_metrics :
          /\ cost_metrics[h].cost = TickSum(ticks, h, "hourly_cost")
          /\ cost_metrics[h].requests = TickSum(ticks, h, "requests")

\* two ticks under different profiles fell in one hour, and a tick in another
C21_Witness ==
    /\ \E i, j \in DOMAIN ticks :
          /\ i < j
          /\ ticks[i].time \div 3600 = ticks[j].time \div 3600
          /\ ticks[i].hourly_cost # ticks[j].hourly_cost
    /\ Cardinality(TickHours) >= 2

\* C22: a report over buckets that hold zero requests in total gives
\* cost_per_request as not-a-number.
C22_ZeroRequestsUndefinedUnitCost ==
    (cost_report.op = "generate_cost_report" /\ cost_report.report.total_requests = 0)
       => cost_report.report.cost_per_request.kind = "nan"

\* the hours a report was made of, and the totals over them read off the ledger
RECURSIVE LedgerTotal(_, _, _)
LedgerTotal(ledger, hours, field) ==
    IF hours = {}
    THEN 0
    ELSE LET h == CHOOSE x \in hours : TRUE
         IN  ledger[h][field] + LedgerTotal(ledger, hours \ {h}, field)

ReportedHours == DOMAIN cost_report.report.cost_breakdown

\* C23: a report of generate_cost_report(hours), hours >= 0, is made of at most
\* `hours` buckets, the most recent ones of the ledger: they are its
\* cost_breakdown, and total_cost and total_requests are their sums.
C23_ReportCoversLastHours ==
    (cost_report.op = "generate_cost_report" /\ cost_report.hours >= 0)
       => /\ ReportedHours \subseteq DOMAIN cost_report.ledger
          /\ Cardinality(ReportedHours) <= cost_report.hours
          /\ \A h \in ReportedHours :
                \A other \in DOMAIN cost_report.ledger \ ReportedHours : other < h
          /\ \A h \in ReportedHours :
                cost_report.report.cost_breakdown[h] = cost_report.ledger[h]
          /\ cost_report.report.total_cost =
                LedgerTotal(cost_report.ledger, ReportedHours, "cost")
          /\ cost_report.report.total_requests =
                LedgerTotal(cost_report.ledger, ReportedHours, "requests")

\* C24: a predict_scaling_need made on a trained forecaster returns a number
\* of instances, and that number is at least 1.
C24_TrainedPredictionAtLeastOne ==
    (predict_call.op = "predict_scaling_need" /\ predict_call.trained)
       => /\ "returned" \in DOMAIN predict_call.result
          /\ predict_call.result.returned >= 1

\* the cost loop's last transition, read off its log
CostOf(name) == (CHOOSE p \in Catalog : p.name = name).hourly_cost
LoggedUp == co_log # << >> /\ CostOf(co_log[1].profile) > CostOf(co_log[1].from)
LoggedDown == co_log # << >> /\ CostOf(co_log[1].profile) <= CostOf(co_log[1].from)
Steps == Tail(co_log)
HasStep(op) == \E i \in DOMAIN Steps : Steps[i].op = op /\ Steps[i].outcome = "returned"

UpOrder ==
    << "scale_up_to_profile", "sleep", "scale_down_from_profile", "set_current_profile" >>

\* C25: the steps of a scale-up transition are, in this order: provision the
\* new profile, wait the settle delay of 60 s, decommission the old profile,
\* set current_profile to the new profile; a step is made only after the one
\* before it returned, and current_profile is the old one until the last step.
C25_ScaleUpOrder ==
    LoggedUp =>
       /\ Len(Steps) <= Len(UpOrder)
       /\ \A i \in DOMAIN Steps :
             /\ Steps[i].op = UpOrder[i]
             /\ i < Len(Steps) => Steps[i].outcome = "returned"
       /\ Len(Steps) >= 1 => Steps[1].profile = co_log[1].profile
       /\ Len(Steps) >= 2 => Steps[2].time >= Steps[1].time + 60
       /\ Len(Steps) >= 3 => Steps[3].profile = co_log[1].from
       /\ Len(Steps) >= 4 => Steps[4].profile = co_log[1].profile
       /\ current_profile.name =
             IF HasStep("set_current_profile") THEN co_log[1].profile ELSE co_log[1].from

\* a scale-up transition went through all its steps
C25_Witness ==
    /\ LoggedUp
    /\ Len(Steps) = 4
    /\ HasStep("set_current_profile")

\* C26: in a scale-down transition every decommissioning of the old profile
\* comes after a drain_connections that returned, and that drain took its 30 s.
C26_DrainBeforeDecommission ==
    LoggedDown =>
       \A i \in DOMAIN Steps :
          Steps[i].op = "scale_down_from_profile" =>
             \E j \in 1..(i - 1) :
                 /\ Steps[j].op = "drain_connections"
                 /\ Steps[j].outcome = "returned"
                 /\ Steps[j].time >= co_log[1].time + 30

\* a scale-down transition decommissioned the old profile
C26_Witness ==
    /\ LoggedDown
    /\ HasStep("scale_down_from_profile")

\* C27: a scale-down transition makes no scale-up operation on the executor.
C27_ScaleDownSkipsScalingUp ==
    LoggedDown => \A i \in DOMAIN Steps : Steps[i].op # "scale_up_to_profile"

\* C28: once a transition has been initiated, by either loop, the stored
\* last_scale_time is the initiation time of the latest transition: already
\* while its executor operations run, and also after it failed.
C28_TimestampSetAtInitiation ==
    initiated # << >> => last_scale_time = initiated[Len(initiated)].time

\* the poll looked at, in the words of the claims
PollDone == poll_call.op = "poll" /\ poll_call.decision # "pending"
PollPressure ==
    \/ poll_call.queue_size > poll_call.target_queue_size
    \/ /\ poll_call.response_times # << >>
       /\ SumSeq(poll_call.response_times) > 5000 * Len(poll_call.response_times)
PollRelief ==
    /\ 2 * poll_call.queue_size < poll_call.target_queue_size
    /\ \/ poll_call.response_times = << >>
       \/ SumSeq(poll_call.response_times) < 2000 * Len(poll_call.response_times)
PollCooldownOver == ~ (current_time - last_scale_time < scale_cooldown)

\* C29: a poll triggers scale_up exactly when (queue depth > target_queue_size
\* or the average response time > 5 s) and now - last_scale_time is not below
\* scale_cooldown.
C29_ScaleUpIffPressureAndCooldown ==
    PollDone => (poll_call.decision = "scale_up" <=> (PollPressure /\ PollCooldownOver))

\* C30: a poll that does not trigger scale_up triggers scale_down exactly when
\* queue depth is below half of target_queue_size and the average response time
\* is below 2 s and the cooldown has elapsed.
C30_ScaleDownIffReliefAndCooldown ==
    (PollDone /\ poll_call.decision # "scale_up")
       => (poll_call.decision = "scale_down" <=> (PollRelief /\ PollCooldownOver))

\* a step that writes current_profile ends a transition of which every
\* executor step returned, and writes the profile that transition asked for
ProfileWrittenAtCompletion ==
    current_profile' # current_profile =>
       /\ co_pc \in InTransitionPcs
       /\ co_pc' = "sleep"
       /\ current_profile = old_profile
       /\ current_profile' = optimal_profile
       /\ co_failed' = "none"
       /\ \A i \in DOMAIN co_log' : co_log'[i].outcome # "raised"
       /\ { "scale_up_to_profile", "scale_down_from_profile" }
             \subseteq { co_log'[i].op : i \in DOMAIN co_log' }

\* C31: current_profile starts as the default profile small, is a catalog
\* profile at all times, is the old profile while a transition is in progress,
\* and is written only by the step that completes a transition, to the profile
\* that transition asked for.
C31_ProfileWrittenOnlyAtCompletion ==
    /\ current_profile = resource_profiles[3]
    /\ current_profile.name = "small"
    /\ [](current_profile \in Catalog)
    /\ [](co_pc \in InTransitionPcs => current_profile = old_profile)
    /\ [][ProfileWrittenAtCompletion]_vars

\* a completed transition has replaced the default profile
C31_Witness ==
    /\ current_profile # default_profile
    /\ current_profile = optimal_profile
    /\ co_failed = "none"
    /\ co_pc = "sleep"

\* a step of the cost loop that starts a poll cycle
CostPollStep == co_pc = "sleep" /\ co_vars' # co_vars

\* C32: a poll cycle of the cost loop whose optimal profile is the current
\* profile starts no transition and calls no executor operation: the loop goes
\* back to sleep, and current_profile and the platform are as before.
C32_StablePollCallsNothing ==
    [][(CostPollStep /\ optimal_profile' = current_profile) =>
          /\ co_pc' = "sleep"
          /\ current_profile' = current_profile
          /\ provisioned' = provisioned
          /\ co_log' = co_log
          /\ initiated' = initiated]_vars

\* a poll cycle found the current profile optimal and ended in its tick
C32_Witness ==
    /\ ticks # << >>
    /\ co_log = << >>
    /\ optimal_profile = current_profile
    /\ co_pc = "sleep"

\* the cheapest of the profiles that can carry the load
CheapestQualifying ==
    CHOOSE p \in Qualifying : \A q \in Qualifying : p.hourly_cost <= q.hourly_cost

\* the snapshot of the call with other utilizations
WithUtilizations(cpu, mem, gpu) ==
    [current_metrics EXCEPT !.cpu_utilization = cpu, !.memory_utilization = mem,
                            !.gpu_utilization = gpu]

PollUp ==
    should_scale_up(poll_call.target_queue_size, poll_call.queue_size,
                    poll_call.response_times, current_time, last_scale_time)
PollDown ==
    should_scale_down(poll_call.target_queue_size, poll_call.queue_size,
                      poll_call.response_times, current_time, last_scale_time)

\* C34: on one poll the scale-up condition and the scale-down condition are
\* not both true, and the poll calls at most one of scale_up and scale_down:
\* scale_up when its condition is true, scale_down only when its own is.
C34_UpAndDownExclusive ==
    PollDone =>
       /\ ~ (PollUp /\ PollDown)
       /\ poll_call.decision = "scale_up" <=> PollUp
       /\ poll_call.decision = "scale_down" <=> PollDown

\* a poll with a short queue and slow responses scaled up
C34_Witness ==
    /\ PollDone
    /\ poll_call.queue_size < poll_call.target_queue_size \div 2
    /\ poll_call.response_times = << 4000, 8000 >>
    /\ poll_call.decision = "scale_up"

\* a poll of the fast loop, and the time of the trigger before it (0 when the
\* fast loop has triggered nothing yet, as last_scale_time starts at 0)
FastPollStep == rs_pc = "sleep" /\ rs_vars' # rs_vars
FastTriggers == { i \in DOMAIN initiated : initiated[i].loop = "fast" }
PreviousTrigger ==
    IF FastTriggers = {}
    THEN 0
    ELSE initiated[CHOOSE i \in FastTriggers : \A j \in FastTriggers : j <= i].time

\* C35: with the default scaler, an empty queue and no response-time samples,
\* a poll of the fast loop triggers scale_down exactly when more than
\* scale_cooldown seconds have passed since its previous trigger (since time 0
\* at the first poll), however many scale-downs were triggered before.
C35_IdleLoopKeepsScalingDown ==
    [][FastPollStep =>
          IF now - PreviousTrigger > scale_cooldown
          THEN rs_pc' = "scale_down" /\ Len(initiated') = Len(initiated) + 1
          ELSE rs_pc' = "sleep" /\ initiated' = initiated]_vars

\* the idle loop has triggered a second scale-down
C35_Witness ==
    /\ Cardinality(FastTriggers) >= 2
    /\ rs_pc = "scale_down"

\* no row of the history misses a value
NoMissingValues ==
    \A i \in DOMAIN metrics_history :
        /\ metrics_history[i].gpu_usage # NaN
        /\ metrics_history[i].request_count # NaN
        /\ metrics_history[i].response_time # NaN
        /\ metrics_history[i].cpu_usage # NaN
        /\ metrics_history[i].memory_usage # NaN

\* C36: on a history without missing values train_model returns False when
\* the history holds fewer than 120 rows (so also with 48 to 119 rows), and
\* fits and returns True, with is_trained set, when it holds 120 rows or more.
C36_TrainingNeeds120Rows ==
    (train_call.op = "train_model" /\ NoMissingValues) =>
       /\ train_call.rows < 120 <=> train_call.result = "False"
       /\ train_call.rows >= 120 <=> train_call.result \in { "running", "True" }
       /\ train_call.result = "True" => is_trained

\* train_model returned True on a history of exactly 120 rows
C36_Witness ==
    /\ train_call.op = "train_model"
    /\ NoMissingValues
    /\ train_call.rows = 120
    /\ Len(metrics_history) = 120
    /\ train_call.result = "True"
    /\ is_trained

\* C37: a poll cycle of the cost loop whose transition raises accrues nothing:
\* no step of the cycle, from the poll to the raise and through the sleep that
\* follows, changes cost_metrics, and update_cost_metrics is not called in it.
C37_FailedCycleAccruesNothing ==
    /\ [](co_failed # "none" =>
             \A i \in DOMAIN ticks : ticks[i].time < co_log[1].time)
    /\ [][(co_pc' \in InTransitionPcs \/ co_failed' # "none")
             => cost_metrics' = cost_metrics]_vars

\* a cycle that followed a tick raised in its transition
C37_Witness ==
    /\ co_failed # "none"
    /\ co_pc = "sleep"
    /\ ticks # << >>
    /\ cost_metrics # EmptyLedger

\* the number of collect_metrics calls made so far
Collected == NextRowNumber - 1

\* C38: the history holds at most history_window * 24 rows, and they are the
\* rows appended last, in the order they were appended.
C38_HistoryIsLastRowsByCount ==
    /\ Len(metrics_history) <= history_window * 24
    /\ Len(metrics_history) <= Collected
    /\ \A i \in DOMAIN metrics_history :
          metrics_history[i] =
             HistoryRow(FeedRow(Collected - Len(metrics_history) + i))

\* the calls of check_rate_limit by a user that returned True
AllowedCalls(user_id) ==
    { i \in DOMAIN rate_calls :
         rate_calls[i].user_id = user_id /\ rate_calls[i].allowed }

\* calls whose times are less than the window apart
LessThanWindowApart(calls) ==
    \A i \in calls : \A j \in calls :
       i # j => /\ rate_calls[i].time - rate_calls[j].time < rate_window
                /\ rate_calls[j].time - rate_calls[i].time < rate_window

\* the user's own allowed calls before call i that are less than the window old
OwnRecentAllowed(i) ==
    { j \in AllowedCalls(rate_calls[i].user_id) :
         j < i /\ rate_calls[i].time - rate_calls[j].time < rate_window }

\* this step is a call of check_rate_limit
RateCallStep == Len(rate_calls') = Len(rate_calls) + 1

LastRateCall == rate_calls'[Len(rate_calls')]

\* how often a time stands in a list of request times
TimesRecorded(requests, t) ==
    Cardinality({ k \in DOMAIN requests : requests[k] = t })

RateCallEffect ==
    RateCallStep =>
       /\ ~ LastRateCall.allowed =>
             \A t \in 0 .. RateHorizon :
                TimesRecorded(RequestsOf(rate_limits', LastRateCall.user_id), t)
                   <= TimesRecorded(RequestsOf(rate_limits, LastRateCall.user_id), t)
       /\ \A other \in RateUsers \ { LastRateCall.user_id } :
             /\ other \in DOMAIN rate_limits' <=> other \in DOMAIN rate_limits
             /\ RequestsOf(rate_limits', other) = RequestsOf(rate_limits, other)

\* C39: among calls of one user less than `window` apart at most `limit`
\* return True; a call that returns False records no timestamp; a call for one
\* user changes no other user's record, and the outcome of a call depends on
\* the calls of its own user alone.
C39_RateLimitPerUser ==
    /\ [](\A user_id \in RateUsers : \A calls \in SUBSET AllowedCalls(user_id) :
             LessThanWindowApart(calls) => Cardinality(calls) <= rate_limit)
    /\ [](\A i \in DOMAIN rate_calls :
             rate_calls[i].allowed <=> Cardinality(OwnRecentAllowed(i)) < rate_limit)
    /\ [][RateCallEffect]_vars

\* one user was allowed, refused inside the window and allowed again after it,
\* the other user was allowed while the first was refused
C39_Witness ==
    /\ rate_limit >= 1
    /\ \E i \in DOMAIN rate_calls : \E j \in DOMAIN rate_calls :
       \E k \in DOMAIN rate_calls : \E l \in DOMAIN rate_calls :
          /\ i < j /\ j < l /\ l < k
          /\ rate_calls[i].user_id = "alice" /\ rate_calls[i].allowed
          /\ rate_calls[j].user_id = "alice" /\ ~ rate_calls[j].allowed
          /\ rate_calls[l].user_id = "bob" /\ rate_calls[l].allowed
          /\ rate_calls[l].time = rate_calls[j].time
          /\ rate_calls[k].user_id = "alice" /\ rate_calls[k].allowed

====
